---- MODULE Spec2Model ----
(***************************************************************************)
(* A model of artiq/protocols/pipe_ipc.py: the duplex byte channel between *)
(* a parent process and the child it spawns, in its two variants (the      *)
(* descriptor-pair variant of "os.name != 'nt'" and the named-pipe variant *)
(* of the "else" branch), with the asyncio stream and pipe-transport       *)
(* behaviour the endpoints delegate to.                                    *)
(***************************************************************************)
EXTENDS Integers, Sequences, FiniteSets, TLC

(* ------------------------------ bounds --------------------------------- *)

\* Bytes passed to write() over a run, by the parent and the child together.
MaxBytes == 2
\* Length of the address strings tried against the child-side connection.
MaxAddrLen == 3
\* Parent endpoints constructed in one parent process.
MaxEndpoints == 3
\* Length of the stream contents read line by line.
MaxLineBytes == 6
\* How far beyond the rates stage_cic accepts, on either side, the rates tried go.
RateSlack == 4

(* --------------------------- bytes and text ---------------------------- *)

\* The byte alphabet: an ordinary byte and the line terminator.
Byte == {"a", "\n"}

\* All byte strings of length at most n.
RECURSIVE SeqsUpTo(_, _)
SeqsUpTo(S, n) ==
    IF n = 0 THEN {<< >>}
    ELSE LET shorter == SeqsUpTo(S, n - 1)
         IN  shorter \cup {Append(s, c) : s \in {t \in shorter : Len(t) = n - 1}, c \in S}

Take(s, k) == SubSeq(s, 1, k)
Drop(s, k) == SubSeq(s, k + 1, Len(s))
IsPrefix(s, t) == Len(s) <= Len(t) /\ Take(t, Len(s)) = s
Min(a, b) == IF a <= b THEN a ELSE b

DigitChars == <<"0", "1", "2", "3", "4", "5", "6", "7", "8", "9">>
IsDigit(c) == \E i \in 1..Len(DigitChars) : DigitChars[i] = c
DigitValue(c) == (CHOOSE i \in 1..Len(DigitChars) : DigitChars[i] = c) - 1

\* "{}".format(n) for a non-negative integer: its decimal digits.
RECURSIVE Dec(_)
Dec(n) == IF n < 10 THEN <<DigitChars[n + 1]>>
          ELSE Dec(n \div 10) \o <<DigitChars[(n % 10) + 1]>>

(* ----------------------------- variables ------------------------------- *)

VARIABLES
    platform,      \* "posix" (os.name != "nt") or "nt"
    kind,          \* the child endpoint class: "async" (AsyncioChildComm) or "blocking" (ChildComm)
    address,       \* the address string the child endpoint is given
    \* the parent endpoint (AsyncioParentComm)
    stage,         \* how far create_subprocess has run
    server,        \* nt: self.server: "None" or "listening"
    ready,         \* nt: self.ready.is_set()
    write_buffer,  \* nt: self.write_buffer
    reader,        \* self.reader: "undef", "open", "eof"
    writer,        \* self.writer: "undef", "open", "closed"
    process,       \* the child process: "none", "running", "exited"
    monitor,       \* the _autoclose task: "none", "waiting", "resumed" (started after the exit), "done"
    conn,          \* nt: the pipe connection: "none", "pending" (made by the child, callback not yet run), "made", "failed"
    fds,           \* posix: descriptors open in the parent process
    handles,       \* nt: pipe handles open in the parent process
    p_out,         \* bytes accepted by the parent's writer, not yet in the pipe
    p_pend,        \* the parent's suspended read/readline/drain
    \* the pipe
    p2c,           \* bytes in flight from parent to child
    c2p,           \* bytes in flight from child to parent
    \* the child endpoint
    c_fds,         \* posix: descriptors open in the child process
    c_handles,     \* nt: pipe handles open in the child process
    c_reader,      \* "undef", "open", "eof", "closed"
    c_writer,      \* "undef", "open", "closed"
    c_out,         \* bytes accepted by the child's writer, not yet in the pipe
    c_pend,        \* the child's blocked read/readline
    \* observation
    sent,          \* every byte the parent's write() calls were given, in call order
    handed,        \* every byte given to the parent's self.writer.write(), in call order
    rcvd,          \* the concatenation of the results of the child's reads
    c_sent,        \* every byte the child's write() calls accepted
    p_rcvd,        \* the concatenation of the results of the parent's reads
    last,          \* the exception or end-of-stream result of the call just made, if any
    \* several parent endpoints in one process
    chans,         \* the endpoints constructed so far
    pipe_count,    \* nt: the next value of _pipe_count
    \* a reader's stream read line by line
    lines,         \* the results of the readline() calls so far
    \* Fastino.stage_cic
    rate,          \* the argument of stage_cic
    cic            \* the outcome of stage_cic: what it raised or staged and returned

cfgVars == <<platform, kind, address>>
lifeVars == <<stage, process, monitor>>
ntVars == <<server, ready, write_buffer, conn>>
pStreamVars == <<reader, writer, p_out, p_pend>>
resVars == <<fds, handles>>
wireVars == <<p2c, c2p>>
cResVars == <<c_fds, c_handles>>
cStreamVars == <<c_reader, c_writer, c_out, c_pend>>
histVars == <<sent, handed, rcvd, c_sent, p_rcvd>>
otherVars == <<lines, rate, cic>>
addrVars == <<chans, pipe_count, otherVars>>
chanVars == <<cfgVars, lifeVars, ntVars, pStreamVars, resVars, wireVars, cResVars,
              cStreamVars, histVars, last>>
vars == <<chanVars, addrVars>>

(* ------------------------- addresses (parent) -------------------------- *)

\* Descriptors 0, 1, 2 are open in every process.
StdFds == {0, 1, 2}

\* The lowest descriptor number not in use.
LowestFree(open) == CHOOSE n \in 0..(Cardinality(open)) : n \notin open /\ \A m \in 0..(n - 1) : m \in open

\* os.pipe(): the two lowest free descriptors, read end first.
OsPipe(open) ==
    LET r == LowestFree(open)
        w == LowestFree(open \cup {r})
    IN  <<r, w>>

\* os.getpid() of the parent process.
ParentPid == 1

PipePrefix == "\\\\.\\pipe\\artiq-"

\* AsyncioParentComm.__init__ (posix): two pipes, four descriptors.
PosixConstruct(open) ==
    LET a == OsPipe(open)
        b == OsPipe(open \cup {a[1], a[2]})
    IN  [c_rfd |-> a[1], p_wfd |-> a[2], p_rfd |-> b[1], c_wfd |-> b[2]]

\* AsyncioParentComm.get_address (posix).
PosixAddress(ch) == Dec(ch.c_rfd) \o <<",">> \o Dec(ch.c_wfd)

\* A name that would leave the counter out.
NtAddressNoCount(pid, count) == <<PipePrefix>> \o Dec(pid) \o <<"-">> \o Dec(0)

\* AsyncioParentComm.__init__ (nt): the name built from the pid and the counter.
NtAddress(pid, count) == <<PipePrefix>> \o Dec(pid) \o <<"-">> \o Dec(count)

\* The one channel of the channel specification: the first endpoint of the process.
Chan == PosixConstruct(StdFds)
c_rfd == Chan.c_rfd
p_wfd == Chan.p_wfd
p_rfd == Chan.p_rfd
c_wfd == Chan.c_wfd

\* get_address() of that endpoint.
get_address(pf) == IF pf = "posix" THEN PosixAddress(Chan) ELSE NtAddress(ParentPid, 0)

NoPend == [op |-> "none", n |-> 0]
\* What the step just taken showed its caller: nothing to report (no call, or a
\* call that returned normally or suspended), or the call that raised, that
\* returned the end-of-stream result, that closed a stream already closed ("noop"),
\* or the connection callback that found buffered writes to hand over ("flushed").
NoCall == [who |-> "none", op |-> "none", out |-> "none"]
Call(who, op, out) ==
    IF out \in {"ok", "data", "pending"} THEN NoCall
    ELSE [who |-> who, op |-> op, out |-> out]

(* ------------------------------- Init ---------------------------------- *)

\* The state once AsyncioParentComm() has been constructed.
ChanInit ==
    /\ platform \in {"posix", "nt"}
    /\ kind \in {"async", "blocking"}
    /\ address = get_address(platform)
    /\ stage = "constructed"
    /\ server = "None"
    /\ ready = FALSE
    /\ write_buffer = << >>
    /\ reader = "undef"
    /\ writer = "undef"
    /\ process = "none"
    /\ monitor = "none"
    /\ conn = "none"
    /\ fds = IF platform = "posix" THEN StdFds \cup {c_rfd, p_wfd, p_rfd, c_wfd} ELSE StdFds
    /\ handles = {}
    /\ p_out = << >>
    /\ p_pend = NoPend
    /\ p2c = << >>
    /\ c2p = << >>
    /\ c_fds = {}
    /\ c_handles = {}
    /\ c_reader = "undef"
    /\ c_writer = "undef"
    /\ c_out = << >>
    /\ c_pend = NoPend
    /\ sent = << >>
    /\ handed = << >>
    /\ rcvd = << >>
    /\ c_sent = << >>
    /\ p_rcvd = << >>
    /\ last = NoCall

\* No readline() results recorded and stage_cic not called.
NoCic == [status |-> "idle"]
OtherIdle ==
    /\ lines = << >>
    /\ rate = 0
    /\ cic = NoCic

\* No endpoint besides that one; on nt its construction has taken the counter's
\* first value.
AddrIdle ==
    /\ chans = << >>
    /\ pipe_count = IF platform = "nt" THEN 1 ELSE 0
    /\ OtherIdle

Init == ChanInit /\ AddrIdle

(* --------------------- create_subprocess (parent) ---------------------- *)

\* nt: start_serving_pipe, the first step of create_subprocess.
StartServing ==
    /\ platform = "nt"
    /\ stage = "constructed"
    /\ stage' = "serving"
    /\ server' = "listening"
    /\ handles' = handles \cup {"listener"}
    /\ last' = NoCall
    /\ UNCHANGED <<cfgVars, process, monitor, ready, write_buffer, conn, pStreamVars, fds,
                   wireVars, cResVars, cStreamVars, histVars, addrVars>>

\* A create_subprocess that would spawn the child first of all.
SpawnStageEarly == "constructed"

\* Where create_subprocess stands when it spawns the child: on posix at its start,
\* on nt after "self.server = await loop.start_serving_pipe(...)".
SpawnStage == IF platform = "posix" THEN "constructed" ELSE "serving"

\* asyncio.create_subprocess_exec: the child process comes to exist. On posix it
\* inherits the two descriptors of pass_fds (and the standard ones).
Spawn ==
    /\ stage = SpawnStage
    /\ stage' = "spawning"
    /\ process' = "running"
    /\ c_fds' = IF platform = "posix" THEN StdFds \cup {c_rfd, c_wfd} ELSE StdFds
    /\ last' = NoCall
    /\ UNCHANGED <<cfgVars, monitor, ntVars, pStreamVars, resVars, wireVars, c_handles,
                   cStreamVars, histVars, addrVars>>

\* asyncio.create_subprocess_exec raises (the program cannot be started): nothing
\* in create_subprocess handles it, so the call ends there with the exception.
SpawnFails ==
    /\ stage = SpawnStage
    /\ stage' = "failed"
    /\ last' = Call("parent", "create_subprocess", "OSError")
    /\ UNCHANGED <<cfgVars, process, monitor, ntVars, pStreamVars, resVars, wireVars,
                   cResVars, cStreamVars, histVars, addrVars>>

\* A create_subprocess that would go on without closing the child's descriptors.
CloseChildFdsSkipped ==
    /\ platform = "posix"
    /\ stage = "spawning"
    /\ stage' = "wrapping"
    /\ last' = NoCall
    /\ UNCHANGED <<cfgVars, process, monitor, ntVars, pStreamVars, resVars, wireVars,
                   cResVars, cStreamVars, histVars, addrVars>>

\* posix: create_subprocess resumes after the spawn and closes the parent's copies
\* of the child's descriptors, then starts wrapping its own.
CloseChildFds ==
    /\ platform = "posix"
    /\ stage = "spawning"
    /\ stage' = "wrapping"
    /\ fds' = (fds \ {c_rfd}) \ {c_wfd}
    /\ last' = NoCall
    /\ UNCHANGED <<cfgVars, process, monitor, ntVars, pStreamVars, handles, wireVars,
                   cResVars, cStreamVars, histVars, addrVars>>

\* posix: _fds_to_asyncio has returned; reader and writer are set and the exit
\* monitor is started.
Wrapped ==
    /\ platform = "posix"
    /\ stage = "wrapping"
    /\ stage' = "started"
    /\ reader' = "open"
    /\ writer' = "open"
    /\ monitor' = "waiting"
    /\ last' = NoCall
    /\ UNCHANGED <<cfgVars, process, ntVars, p_out, p_pend, resVars, wireVars, cResVars,
                   cStreamVars, histVars, addrVars>>

\* nt: create_subprocess resumes after the spawn and starts the exit monitor. When
\* the child has exited by then, "await self.process.wait()" will not suspend.
MonitorStart ==
    /\ platform = "nt"
    /\ stage = "spawning"
    /\ stage' = "started"
    /\ monitor' = IF process = "exited" THEN "resumed" ELSE "waiting"
    /\ last' = NoCall
    /\ UNCHANGED <<cfgVars, process, ntVars, pStreamVars, resVars, wireVars, cResVars,
                   cStreamVars, histVars, addrVars>>

(* ------------------------ the child's connection ----------------------- *)

\* str.split(",", maxsplit=1): the text before the first comma and the text after
\* it, or the whole text alone when it holds no comma.
Split1(s) ==
    IF \E i \in 1..Len(s) : s[i] = ","
    THEN LET i == CHOOSE k \in 1..Len(s) : s[k] = "," /\ \A m \in 1..(k - 1) : s[m] # ","
         IN  <<Take(s, i - 1), Drop(s, i)>>
    ELSE <<s>>

\* Whether int(s) succeeds, for a text of digits, letters and commas.
IsInt(s) == Len(s) > 0 /\ \A i \in 1..Len(s) : IsDigit(s[i])

\* int(s) of a text of digits.
RECURSIVE IntOf(_)
IntOf(s) == IF Len(s) = 0 THEN 0
            ELSE 10 * IntOf(Take(s, Len(s) - 1)) + DigitValue(s[Len(s)])

\* "rfd, wfd = address.split(',', maxsplit=1)": unpacking fails unless there are two parts.
Unpacks(addr) == Len(Split1(addr)) = 2

\* nt: whether a pipe server is accepting under the name the child was given.
Listening(addr) ==
    /\ addr = get_address("nt")
    /\ "listener" \in handles
    /\ conn = "none"

\* AsyncioChildComm.connect (posix): both numbers are parsed before anything is
\* opened; _fds_to_asyncio then opens the write descriptor first.
ConnectAsyncPosix ==
    LET parts == Split1(address) IN
    IF ~Unpacks(address) \/ ~IsInt(parts[1]) \/ ~IsInt(parts[2])
    THEN /\ last' = Call("child", "connect", "ValueError")
         /\ UNCHANGED <<c_reader, c_writer>>
    ELSE IF IntOf(parts[2]) \notin c_fds
    THEN /\ last' = Call("child", "connect", "OSError")
         /\ UNCHANGED <<c_reader, c_writer>>
    ELSE IF IntOf(parts[1]) \notin c_fds
    THEN /\ last' = Call("child", "connect", "OSError")
         /\ c_writer' = "open"
         /\ UNCHANGED c_reader
    ELSE /\ last' = Call("child", "connect", "ok")
         /\ c_writer' = "open"
         /\ c_reader' = "open"

\* ChildComm.__init__ (posix): the read descriptor is parsed and opened, then the
\* write descriptor is parsed and opened.
ConnectBlockingPosix ==
    LET parts == Split1(address) IN
    IF ~Unpacks(address) \/ ~IsInt(parts[1])
    THEN /\ last' = Call("child", "connect", "ValueError")
         /\ UNCHANGED <<c_reader, c_writer>>
    ELSE IF IntOf(parts[1]) \notin c_fds
    THEN /\ last' = Call("child", "connect", "OSError")
         /\ UNCHANGED <<c_reader, c_writer>>
    ELSE IF ~IsInt(parts[2])
    THEN /\ last' = Call("child", "connect", "ValueError")
         /\ c_reader' = "open"
         /\ UNCHANGED c_writer
    ELSE IF IntOf(parts[2]) \notin c_fds
    THEN /\ last' = Call("child", "connect", "OSError")
         /\ c_reader' = "open"
         /\ UNCHANGED c_writer
    ELSE /\ last' = Call("child", "connect", "ok")
         /\ c_reader' = "open"
         /\ c_writer' = "open"

\* AsyncioChildComm.connect and ChildComm.__init__ (nt): the name is handed to the
\* operating system as it is; the open succeeds when a server listens under it.
ConnectNt ==
    IF Listening(address)
    THEN /\ last' = Call("child", "connect", "ok")
         /\ c_reader' = "open"
         /\ c_writer' = "open"
         /\ c_handles' = {"pipe"}
         /\ conn' = "pending"
    ELSE /\ last' = Call("child", "connect", "OSError")
         /\ c_reader' = IF kind = "async" THEN "open" ELSE c_reader
         /\ UNCHANGED <<c_writer, c_handles, conn>>

\* The child builds its endpoint from the address: AsyncioChildComm(address) and
\* connect(), or ChildComm(address).
ChildConnect ==
    /\ process = "running"
    /\ c_reader = "undef" /\ c_writer = "undef"
    /\ IF platform = "posix"
       THEN /\ IF kind = "async" THEN ConnectAsyncPosix ELSE ConnectBlockingPosix
            /\ UNCHANGED <<c_handles, conn>>
       ELSE ConnectNt
    /\ UNCHANGED <<cfgVars, lifeVars, server, ready, write_buffer, pStreamVars, resVars,
                   wireVars, c_fds, c_out, c_pend, histVars, addrVars>>

\* nt: a further endpoint is built in the child from the same address (its own
\* streams are not followed). While the first connection waits for its callback
\* the open either fails, the one pipe instance being taken, or meets the instance
\* the event loop has armed next, which is dropped when the listener is closed;
\* once the listener is closed the open fails. A listener still open after a
\* callback accepts the client as it did the first.
ConnectAgain ==
    /\ platform = "nt"
    /\ process = "running"
    /\ c_reader # "undef" \/ c_writer # "undef"
    /\ IF address = get_address("nt") /\ "listener" \in handles
       THEN IF conn = "pending"
            THEN /\ \E out \in {"OSError", "dropped"} : last' = Call("child", "connect", out)
                 /\ UNCHANGED <<conn, c_handles>>
            ELSE /\ conn' = "pending"
                 /\ c_handles' = c_handles \cup {"pipe"}
                 /\ last' = Call("child", "connect", "ok")
       ELSE /\ last' = Call("child", "connect", "OSError")
            /\ UNCHANGED <<conn, c_handles>>
    /\ UNCHANGED <<cfgVars, lifeVars, server, ready, write_buffer, pStreamVars, resVars,
                   wireVars, c_fds, cStreamVars, histVars, addrVars>>

(* --------------------------- the exit monitor --------------------------- *)

\* A close of the listener that would leave it listening.
ServerLeftOpen(hs) == hs

\* "self.server[0].close()": the listener's handle is closed.
ServerClosed(hs) == hs \ {"listener"}

\* A close() that would leave the writer as it found it.
WriterStaysOpen(w) == w

\* StreamWriter.close() as the writer's state: closing a closed writer changes nothing.
WriterClosed(w) == IF w = "undef" THEN "undef" ELSE "closed"

\* The descriptors the parent holds once its writer is closed with nothing left
\* to flush: the write descriptor is released.
ReleaseWrite(open, out) == IF out = << >> THEN open \ {p_wfd} ELSE open

\* nt: the same for the connected pipe handle.
ReleasePipe(hs, out) == IF out = << >> THEN hs \ {"pipe"} ELSE hs

\* The child process ends: every descriptor and handle it held is closed, what its
\* writer had not flushed is gone, and nothing reads what is still in the pipe.
ChildExit ==
    /\ process = "running"
    /\ process' = "exited"
    /\ c_fds' = {}
    /\ c_handles' = {}
    /\ c_reader' = "undef"
    /\ c_writer' = "undef"
    /\ c_out' = << >>
    /\ c_pend' = NoPend
    /\ p2c' = << >>
    /\ last' = NoCall
    /\ UNCHANGED <<cfgVars, stage, monitor, ntVars, pStreamVars, resVars, c2p, histVars, addrVars>>

\* "await self.process.wait()" returns: the process has exited. A monitor that
\* was suspended in the wait is resumed by the exit notification, which the event
\* loop delivers after a connection the child made before it exited. A monitor
\* started after the exit does not suspend: its first step runs on, whether or not
\* the callback of a connection already accepted has run.
ExitObserved ==
    /\ process = "exited"
    /\ \/ monitor = "resumed"
       \/ monitor = "waiting" /\ conn # "pending"

\* A monitor that would close the writer without asking whether it exists.
ClosesWriterAlways == TRUE

\* Whether _autoclose reaches "self.writer.close()": always on posix, on nt only
\* "if self.ready.is_set()".
ClosesWriter == platform = "posix" \/ ready

\* "self.writer.close()" raises AttributeError when no writer was ever assigned.
AutocloseRaises == ClosesWriter /\ writer = "undef"

\* AsyncioParentComm._autoclose (posix).
AutoclosePosix ==
    /\ writer' = WriterClosed(writer)
    /\ fds' = ReleaseWrite(fds, p_out)
    /\ UNCHANGED <<ntVars, reader, handles, c2p>>

\* A monitor that would keep its reference to the listener it has closed.
ServerKept == "listening"

\* "self.server = None" once the listener has been closed.
ServerCleared == "None"

\* AsyncioParentComm._autoclose (nt): the listener is closed if it is still there,
\* and the writer only if the child had connected. Closing the writer closes the
\* one duplex pipe: reading stops, what the pipe held unread is lost and the reader
\* is fed end-of-stream. Closing a writer that is closed already does nothing.
AutocloseNt ==
    /\ server' = ServerCleared
    /\ IF ready /\ writer = "open"
       THEN /\ writer' = WriterClosed(writer)
            /\ reader' = "eof"
            /\ handles' = ReleasePipe(ServerClosed(handles), p_out)
            /\ \E k \in 0..Len(c2p) : c2p' = Take(c2p, k)
       ELSE /\ handles' = ServerClosed(handles)
            /\ UNCHANGED <<writer, reader, c2p>>
    /\ UNCHANGED <<ready, write_buffer, conn, fds>>

Autoclose ==
    /\ ExitObserved
    /\ monitor' = "done"
    /\ IF platform = "posix" THEN AutoclosePosix ELSE AutocloseNt
    /\ last' = IF AutocloseRaises THEN Call("parent", "_autoclose", "AttributeError") ELSE NoCall
    /\ UNCHANGED <<cfgVars, stage, process, p_out, p_pend, p2c, cResVars, cStreamVars,
                   histVars, addrVars>>

\* A connection callback that would forget the buffered writes.
FlushBufferedDrop(out, buf) == out

\* "if self.write_buffer: self.writer.write(self.write_buffer)": what the writer
\* holds once the buffered writes have been handed to it.
FlushBuffered(out, buf) == out \o buf

\* A callback that would keep the buffered writes after handing them over.
BufferKept(buf) == buf

\* "self.write_buffer = b''" after the buffered writes were handed to the writer.
BufferFlushed(buf) == << >>

\* AsyncioParentComm._child_connected (nt): the connection callback. Its first
\* statement subscripts self.server: when the exit monitor has cleared it, that
\* raises TypeError and nothing else of the callback runs.
ChildConnected ==
    /\ platform = "nt"
    /\ conn = "pending"
    /\ IF server = "listening"
       THEN /\ server' = "None"
            /\ handles' = ServerClosed(handles) \cup {"pipe"}
            /\ reader' = "open"
            /\ writer' = "open"
            /\ p_out' = FlushBuffered(p_out, write_buffer)
            /\ handed' = handed \o write_buffer
            /\ write_buffer' = BufferFlushed(write_buffer)
            /\ ready' = TRUE
            /\ conn' = "made"
            /\ last' = Call("parent", "_child_connected",
                            IF write_buffer = << >> THEN "ok" ELSE "flushed")
       ELSE /\ conn' = "failed"
            /\ last' = Call("parent", "_child_connected", "TypeError")
            /\ UNCHANGED <<server, handles, reader, writer, p_out, handed, write_buffer, ready>>
    /\ UNCHANGED <<cfgVars, lifeVars, fds, p_pend, wireVars, cResVars, cStreamVars,
                   sent, rcvd, c_sent, p_rcvd, addrVars>>

(* ------------------------ streams and transports ----------------------- *)

\* A write that would put its bytes ahead of those still waiting.
WriterWriteFront(w, out, d) == IF w = "open" THEN d \o out ELSE out

\* StreamWriter.write(d) on the transport's buffer: a transport that is closing
\* or closed discards what it is given, without an error.
WriterWrite(w, out, d) == IF w = "open" THEN out \o d ELSE out

\* A readline that would run on to the last terminator in the buffer.
LastNewline(b) == CHOOSE i \in 1..Len(b) : b[i] = "\n" /\ \A m \in (i + 1)..Len(b) : b[m] # "\n"

HasNewline(b) == \E i \in 1..Len(b) : b[i] = "\n"
FirstNewline(b) == CHOOSE i \in 1..Len(b) : b[i] = "\n" /\ \A m \in 1..(i - 1) : b[m] # "\n"

\* read(n) and readline() on a buffer b whose stream has or has not ended:
\* whether the call can return now, and what it returns.
CanReturn(op, b, eof) ==
    IF op = "readline" THEN HasNewline(b) \/ eof ELSE b # << >> \/ eof

Returned(op, n, b) ==
    IF op = "readline"
    THEN IF HasNewline(b) THEN Take(b, FirstNewline(b)) ELSE b
    ELSE Take(b, Min(n, Len(b)))

\* How a completed read is reported: the bytes, or the end-of-stream result.
ReadOut(data) == IF data = << >> THEN "eof" ELSE "data"

\* The operating system's view of the pipe ends.
ParentWriteEndOpen == IF platform = "posix" THEN p_wfd \in fds
                      ELSE "pipe" \in handles \/ "listener" \in handles
ParentReadEndOpen == IF platform = "posix" THEN p_rfd \in fds
                     ELSE "pipe" \in handles \/ "listener" \in handles
ChildReadEndOpen == IF platform = "posix" THEN c_rfd \in c_fds \/ c_rfd \in fds
                    ELSE "pipe" \in c_handles
ChildWriteEndOpen == IF platform = "posix" THEN c_wfd \in c_fds \/ c_wfd \in fds
                     ELSE "pipe" \in c_handles \/ conn = "none"

\* StreamWriter.drain(): it fails once the stream's protocol has seen its
\* connection lost, and otherwise returns (the buffers here never reach the
\* high-water mark).
ParentDrainOut ==
    IF platform = "posix"
    THEN IF reader = "eof" THEN "ConnectionResetError" ELSE "ok"
    ELSE IF writer = "closed" /\ "pipe" \notin handles THEN "ConnectionResetError" ELSE "ok"

(* ------------------------ the parent's stream calls -------------------- *)

\* _BaseIO.write (posix) and AsyncioParentComm.write (nt).
ParentWritePosix(d) ==
    IF writer = "undef"
    THEN /\ last' = Call("parent", "write", "AttributeError")
         /\ UNCHANGED <<p_out, sent, handed, write_buffer>>
    ELSE /\ p_out' = WriterWrite(writer, p_out, d)
         /\ sent' = sent \o d
         /\ handed' = handed \o d
         /\ last' = Call("parent", "write", "ok")
         /\ UNCHANGED write_buffer

ParentWriteNt(d) ==
    /\ IF ready
       THEN /\ p_out' = WriterWrite(writer, p_out, d)
            /\ handed' = handed \o d
            /\ UNCHANGED write_buffer
       ELSE /\ write_buffer' = write_buffer \o d
            /\ UNCHANGED <<p_out, handed>>
    /\ sent' = sent \o d
    /\ last' = Call("parent", "write", "ok")

ParentWrite ==
    /\ \E d \in SeqsUpTo(Byte, MaxBytes - Len(sent) - Len(c_sent)) \ {<< >>} :
          IF platform = "posix" THEN ParentWritePosix(d) ELSE ParentWriteNt(d)
    /\ UNCHANGED <<cfgVars, lifeVars, server, ready, conn, reader, writer, p_pend, resVars,
                   wireVars, cResVars, cStreamVars, rcvd, c_sent, p_rcvd, addrVars>>

\* _BaseIO.drain (posix) and AsyncioParentComm.drain (nt), which first waits for
\* the readiness gate.
ParentDrain ==
    /\ p_pend = NoPend
    /\ IF platform = "posix" /\ writer = "undef"
       THEN last' = Call("parent", "drain", "AttributeError") /\ UNCHANGED p_pend
       ELSE IF platform = "nt" /\ ~ready
       THEN last' = Call("parent", "drain", "pending") /\ p_pend' = [op |-> "drain", n |-> 0]
       ELSE last' = Call("parent", "drain", ParentDrainOut) /\ UNCHANGED p_pend
    /\ UNCHANGED <<cfgVars, lifeVars, ntVars, reader, writer, p_out, resVars, wireVars,
                   cResVars, cStreamVars, histVars, addrVars>>

\* _BaseIO.read/readline (posix) and AsyncioParentComm.read/readline (nt), which
\* first wait for the readiness gate.
ParentReadCall(op, n) ==
    IF platform = "posix" /\ reader = "undef"
    THEN /\ last' = Call("parent", op, "AttributeError")
         /\ UNCHANGED <<p_pend, c2p, p_rcvd>>
    ELSE IF (platform = "nt" /\ ~ready) \/ ~CanReturn(op, c2p, reader = "eof")
    THEN /\ last' = Call("parent", op, "pending")
         /\ p_pend' = [op |-> op, n |-> n]
         /\ UNCHANGED <<c2p, p_rcvd>>
    ELSE /\ last' = Call("parent", op, ReadOut(Returned(op, n, c2p)))
         /\ p_rcvd' = p_rcvd \o Returned(op, n, c2p)
         /\ c2p' = Drop(c2p, Len(Returned(op, n, c2p)))
         /\ UNCHANGED p_pend

ParentRead ==
    /\ p_pend = NoPend
    /\ \E n \in 1..MaxBytes : ParentReadCall("read", n)
    /\ UNCHANGED <<cfgVars, lifeVars, ntVars, reader, writer, p_out, resVars, p2c,
                   cResVars, cStreamVars, sent, handed, rcvd, c_sent, addrVars>>

ParentReadline ==
    /\ p_pend = NoPend
    /\ ParentReadCall("readline", 0)
    /\ UNCHANGED <<cfgVars, lifeVars, ntVars, reader, writer, p_out, resVars, p2c,
                   cResVars, cStreamVars, sent, handed, rcvd, c_sent, addrVars>>

\* A suspended parent call resumes: the gate is set (nt) and, for a read, the
\* bytes or the end of the stream have arrived.
ParentWake ==
    /\ p_pend # NoPend
    /\ platform = "nt" => ready
    /\ p_pend' = NoPend
    /\ IF p_pend.op = "drain"
       THEN /\ last' = Call("parent", "drain", ParentDrainOut)
            /\ UNCHANGED <<c2p, p_rcvd>>
       ELSE /\ CanReturn(p_pend.op, c2p, reader = "eof")
            /\ last' = Call("parent", p_pend.op, ReadOut(Returned(p_pend.op, p_pend.n, c2p)))
            /\ p_rcvd' = p_rcvd \o Returned(p_pend.op, p_pend.n, c2p)
            /\ c2p' = Drop(c2p, Len(Returned(p_pend.op, p_pend.n, c2p)))
    /\ UNCHANGED <<cfgVars, lifeVars, ntVars, reader, writer, p_out, resVars, p2c,
                   cResVars, cStreamVars, sent, handed, rcvd, c_sent, addrVars>>

\* The parent's write transport moves the next byte into the pipe. With the child's read
\* end gone the write fails: the transport drops its buffer and closes. A byte that
\* enters the pipe after the child's transport stopped reading never reaches the
\* child's reader.
ParentFlush ==
    /\ p_out # << >>
    /\ IF ChildReadEndOpen
       THEN /\ p2c' = IF c_reader = "eof" THEN p2c ELSE Append(p2c, Head(p_out))
            /\ p_out' = Tail(p_out)
            /\ UNCHANGED <<writer, reader>>
            /\ IF writer = "closed"
               THEN /\ fds' = IF platform = "posix" THEN ReleaseWrite(fds, Tail(p_out)) ELSE fds
                    /\ handles' = IF platform = "nt" THEN ReleasePipe(handles, Tail(p_out)) ELSE handles
               ELSE UNCHANGED resVars
       ELSE /\ p_out' = << >>
            /\ writer' = "closed"
            /\ reader' = IF platform = "nt" THEN "eof" ELSE reader
            /\ fds' = IF platform = "posix" THEN fds \ {p_wfd} ELSE fds
            /\ handles' = IF platform = "nt" THEN handles \ {"pipe"} ELSE handles
            /\ UNCHANGED p2c
    /\ last' = NoCall
    /\ UNCHANGED <<cfgVars, lifeVars, ntVars, p_pend, c2p, cResVars, cStreamVars,
                   histVars, addrVars>>

\* The parent's read transport finds the child's write end closed: the reader is
\* fed end-of-stream; on posix the read transport closes its descriptor.
ParentReaderEof ==
    /\ reader = "open"
    /\ ~ChildWriteEndOpen
    /\ reader' = "eof"
    /\ fds' = IF platform = "posix" THEN fds \ {p_rfd} ELSE fds
    /\ last' = NoCall
    /\ UNCHANGED <<cfgVars, lifeVars, ntVars, writer, p_out, p_pend, handles, wireVars,
                   cResVars, cStreamVars, histVars, addrVars>>

(* ------------------------ the child's stream calls --------------------- *)

\* The child endpoint object exists: AsyncioChildComm from its construction on,
\* ChildComm once its constructor has returned.
ChildEndpoint ==
    /\ process = "running"
    /\ kind = "blocking" => c_reader # "undef" /\ c_writer # "undef"

\* Whether the child's stream has ended: the asynchronous reader once it was fed
\* end-of-stream, the blocking file as soon as the parent's write end is closed.
ChildEof == IF kind = "async" THEN c_reader = "eof" ELSE ~ParentWriteEndOpen

ChildDrainOut ==
    IF platform = "posix"
    THEN IF c_reader = "eof" THEN "ConnectionResetError" ELSE "ok"
    ELSE IF c_writer = "closed" /\ "pipe" \notin c_handles THEN "ConnectionResetError" ELSE "ok"

\* _BaseIO.write on AsyncioChildComm.
ChildWriteAsync(d) ==
    IF c_writer = "undef"
    THEN /\ last' = Call("child", "write", "AttributeError")
         /\ UNCHANGED <<c_out, c2p, c_sent>>
    ELSE /\ c_out' = WriterWrite(c_writer, c_out, d)
         /\ c_sent' = c_sent \o d
         /\ last' = Call("child", "write", "ok")
         /\ UNCHANGED c2p

\* ChildComm.write: an unbuffered write straight into the pipe.
ChildWriteBlocking(d) ==
    IF c_writer = "closed"
    THEN /\ last' = Call("child", "write", "ValueError")
         /\ UNCHANGED <<c_out, c2p, c_sent>>
    ELSE IF ~ParentReadEndOpen
    THEN /\ last' = Call("child", "write", "BrokenPipeError")
         /\ UNCHANGED <<c_out, c2p, c_sent>>
    ELSE /\ c2p' = c2p \o d
         /\ c_sent' = c_sent \o d
         /\ last' = Call("child", "write", "ok")
         /\ UNCHANGED c_out

ChildWrite ==
    /\ ChildEndpoint
    /\ kind = "blocking" => c_pend = NoPend
    /\ \E d \in SeqsUpTo(Byte, MaxBytes - Len(sent) - Len(c_sent)) \ {<< >>} :
          IF kind = "async" THEN ChildWriteAsync(d) ELSE ChildWriteBlocking(d)
    /\ UNCHANGED <<cfgVars, lifeVars, ntVars, pStreamVars, resVars, p2c, cResVars,
                   c_reader, c_writer, c_pend, sent, handed, rcvd, p_rcvd, addrVars>>

\* _BaseIO.drain on AsyncioChildComm.
ChildDrain ==
    /\ ChildEndpoint
    /\ kind = "async"
    /\ last' = Call("child", "drain", IF c_writer = "undef" THEN "AttributeError" ELSE ChildDrainOut)
    /\ UNCHANGED <<cfgVars, lifeVars, ntVars, pStreamVars, resVars, wireVars, cResVars,
                   cStreamVars, histVars, addrVars>>

\* _BaseIO.read/readline on AsyncioChildComm; ChildComm.read/readline.
ChildReadCall(op, n) ==
    IF c_reader = "undef"
    THEN /\ last' = Call("child", op, "AttributeError")
         /\ UNCHANGED <<c_pend, p2c, rcvd>>
    ELSE IF c_reader = "closed"
    THEN /\ last' = Call("child", op, "ValueError")
         /\ UNCHANGED <<c_pend, p2c, rcvd>>
    ELSE IF ~CanReturn(op, p2c, ChildEof)
    THEN /\ last' = Call("child", op, "pending")
         /\ c_pend' = [op |-> op, n |-> n]
         /\ UNCHANGED <<p2c, rcvd>>
    ELSE /\ last' = Call("child", op, ReadOut(Returned(op, n, p2c)))
         /\ rcvd' = rcvd \o Returned(op, n, p2c)
         /\ p2c' = Drop(p2c, Len(Returned(op, n, p2c)))
         /\ UNCHANGED c_pend

ChildRead ==
    /\ ChildEndpoint
    /\ c_pend = NoPend
    /\ \E n \in 1..MaxBytes : ChildReadCall("read", n)
    /\ UNCHANGED <<cfgVars, lifeVars, ntVars, pStreamVars, resVars, c2p, cResVars,
                   c_reader, c_writer, c_out, sent, handed, c_sent, p_rcvd, addrVars>>

ChildReadline ==
    /\ ChildEndpoint
    /\ c_pend = NoPend
    /\ ChildReadCall("readline", 0)
    /\ UNCHANGED <<cfgVars, lifeVars, ntVars, pStreamVars, resVars, c2p, cResVars,
                   c_reader, c_writer, c_out, sent, handed, c_sent, p_rcvd, addrVars>>

\* A blocked child read returns: bytes or the end of the stream have arrived.
ChildWake ==
    /\ process = "running"
    /\ c_pend # NoPend
    /\ CanReturn(c_pend.op, p2c, ChildEof)
    /\ c_pend' = NoPend
    /\ last' = Call("child", c_pend.op, ReadOut(Returned(c_pend.op, c_pend.n, p2c)))
    /\ rcvd' = rcvd \o Returned(c_pend.op, c_pend.n, p2c)
    /\ p2c' = Drop(p2c, Len(Returned(c_pend.op, c_pend.n, p2c)))
    /\ UNCHANGED <<cfgVars, lifeVars, ntVars, pStreamVars, resVars, c2p, cResVars,
                   c_reader, c_writer, c_out, sent, handed, c_sent, p_rcvd, addrVars>>

\* The asynchronous child's write transport moves the next byte into the pipe.
ChildFlush ==
    /\ process = "running"
    /\ c_out # << >>
    /\ IF ParentReadEndOpen
       THEN /\ c2p' = Append(c2p, Head(c_out))
            /\ c_out' = Tail(c_out)
            /\ UNCHANGED <<c_writer, c_reader>>
            /\ IF c_writer = "closed" /\ Tail(c_out) = << >>
               THEN /\ c_fds' = c_fds \ {c_wfd}
                    /\ c_handles' = {}
               ELSE UNCHANGED cResVars
       ELSE /\ c_out' = << >>
            /\ c_writer' = "closed"
            /\ c_reader' = IF platform = "nt" THEN "eof" ELSE c_reader
            /\ c_fds' = c_fds \ {c_wfd}
            /\ c_handles' = {}
            /\ UNCHANGED c2p
    /\ last' = NoCall
    /\ UNCHANGED <<cfgVars, lifeVars, ntVars, pStreamVars, resVars, p2c, c_pend,
                   histVars, addrVars>>

\* AsyncioChildComm.close: self.writer.close(). On posix the writer is the write
\* pipe's transport alone; on nt it is the one duplex pipe, so reading ends too.
ChildCloseAsync ==
    IF c_writer = "undef"
    THEN /\ last' = Call("child", "close", "AttributeError")
         /\ UNCHANGED <<c_reader, c_writer, c_fds, c_handles, p2c>>
    ELSE IF c_writer = "closed"
    THEN /\ last' = Call("child", "close", "noop")
         /\ UNCHANGED <<c_reader, c_writer, c_fds, c_handles, p2c>>
    ELSE /\ last' = Call("child", "close", "ok")
         /\ c_writer' = "closed"
         /\ IF platform = "posix"
            THEN /\ c_fds' = IF c_out = << >> THEN c_fds \ {c_wfd} ELSE c_fds
                 /\ UNCHANGED <<c_reader, c_handles, p2c>>
            ELSE /\ c_reader' = "eof"
                 /\ c_handles' = IF c_out = << >> THEN {} ELSE c_handles
                 /\ \E k \in 0..Len(p2c) : p2c' = Take(p2c, k)
                 /\ UNCHANGED c_fds

\* A close that would not notice the files are closed already.
ChildCloseBlockingAgain ==
    /\ last' = Call("child", "close", "ok")
    /\ c_reader' = "closed"
    /\ c_writer' = "closed"
    /\ c_fds' = (c_fds \ {c_rfd}) \ {c_wfd}
    /\ c_handles' = {}
    /\ p2c' = << >>

\* ChildComm.close: rf.close() and wf.close() (posix), f.close() (nt). What the
\* pipe still held for the child can no longer be read. Closing a closed file
\* does nothing.
ChildCloseBlocking ==
    IF c_reader = "closed" /\ c_writer = "closed"
    THEN /\ last' = Call("child", "close", "noop")
         /\ UNCHANGED <<c_reader, c_writer, c_fds, c_handles, p2c>>
    ELSE /\ last' = Call("child", "close", "ok")
         /\ c_reader' = "closed"
         /\ c_writer' = "closed"
         /\ c_fds' = (c_fds \ {c_rfd}) \ {c_wfd}
         /\ c_handles' = {}
         /\ p2c' = << >>

ChildClose ==
    /\ ChildEndpoint
    /\ kind = "blocking" => c_pend = NoPend
    /\ IF kind = "async" THEN ChildCloseAsync ELSE ChildCloseBlocking
    /\ UNCHANGED <<cfgVars, lifeVars, ntVars, pStreamVars, resVars, c2p, c_out, c_pend,
                   histVars, addrVars>>

Next ==
    \/ StartServing \/ Spawn \/ SpawnFails \/ CloseChildFds \/ Wrapped \/ MonitorStart
    \/ ChildConnect \/ ChildExit \/ Autoclose \/ ChildConnected
    \/ ParentWrite \/ ParentDrain \/ ParentRead \/ ParentReadline \/ ParentWake
    \/ ParentFlush \/ ParentReaderEof
    \/ ChildWrite \/ ChildDrain \/ ChildRead \/ ChildReadline \/ ChildWake
    \/ ChildFlush \/ ChildClose

Spec == Init /\ [][Next]_vars

(* ------------- nt: a child that opens the pipe more than once ----------- *)

NtInit == Init /\ platform = "nt"

\* The steps of the nt strategy, the child free to build further endpoints.
NtNext ==
    \/ StartServing \/ Spawn \/ SpawnFails \/ MonitorStart
    \/ ChildConnect \/ ConnectAgain \/ ChildExit \/ Autoclose \/ ChildConnected
    \/ ParentWrite \/ ParentDrain \/ ParentRead \/ ParentReadline \/ ParentWake
    \/ ParentFlush \/ ParentReaderEof
    \/ ChildWrite \/ ChildDrain \/ ChildRead \/ ChildReadline \/ ChildWake
    \/ ChildFlush \/ ChildClose

SpecNt == NtInit /\ [][NtNext]_vars

(* ------------------- the child-side connection alone ------------------- *)

\* The characters of the address texts tried: two descriptor digits, a letter
\* and the separator.
AddrChars == {"3", "6", "x", ","}

\* The texts a child may be handed as its address: every text of those
\* characters up to MaxAddrLen, and the address the parent reports.
Addresses(pf) == SeqsUpTo(AddrChars, MaxAddrLen) \cup {get_address(pf)}

\* create_subprocess has returned and the child has not yet built its endpoint;
\* the child was handed some text as the address.
ConnectInit ==
    /\ platform \in {"posix", "nt"}
    /\ kind \in {"async", "blocking"}
    /\ address \in Addresses(platform)
    /\ stage = "started"
    /\ server = IF platform = "nt" THEN "listening" ELSE "None"
    /\ ready = FALSE
    /\ write_buffer = << >>
    /\ reader = IF platform = "posix" THEN "open" ELSE "undef"
    /\ writer = IF platform = "posix" THEN "open" ELSE "undef"
    /\ process = "running"
    /\ monitor = "waiting"
    /\ conn = "none"
    /\ fds = IF platform = "posix" THEN StdFds \cup {p_wfd, p_rfd} ELSE StdFds
    /\ handles = IF platform = "nt" THEN {"listener"} ELSE {}
    /\ p_out = << >>
    /\ p_pend = NoPend
    /\ p2c = << >>
    /\ c2p = << >>
    /\ c_fds = IF platform = "posix" THEN StdFds \cup {c_rfd, c_wfd} ELSE StdFds
    /\ c_handles = {}
    /\ c_reader = "undef"
    /\ c_writer = "undef"
    /\ c_out = << >>
    /\ c_pend = NoPend
    /\ sent = << >>
    /\ handed = << >>
    /\ rcvd = << >>
    /\ c_sent = << >>
    /\ p_rcvd = << >>
    /\ last = NoCall
    /\ AddrIdle

ConnectNext == ChildConnect

SpecConnect == ConnectInit /\ [][ConnectNext]_vars

(* ------------------ the endpoints of one parent process ----------------- *)

\* The variables the construction of further endpoints leaves alone.
addrFrame == <<cfgVars, lifeVars, ntVars, pStreamVars, handles, wireVars, cResVars,
               cStreamVars, histVars, last, otherVars>>

\* A parent process that has constructed no endpoint yet.
AddrInit ==
    /\ platform \in {"posix", "nt"}
    /\ kind = "async"
    /\ address = << >>
    /\ stage = "constructed"
    /\ server = "None"
    /\ ready = FALSE
    /\ write_buffer = << >>
    /\ reader = "undef"
    /\ writer = "undef"
    /\ process = "none"
    /\ monitor = "none"
    /\ conn = "none"
    /\ fds = StdFds
    /\ handles = {}
    /\ p_out = << >>
    /\ p_pend = NoPend
    /\ p2c = << >>
    /\ c2p = << >>
    /\ c_fds = {}
    /\ c_handles = {}
    /\ c_reader = "undef"
    /\ c_writer = "undef"
    /\ c_out = << >>
    /\ c_pend = NoPend
    /\ sent = << >>
    /\ handed = << >>
    /\ rcvd = << >>
    /\ c_sent = << >>
    /\ p_rcvd = << >>
    /\ last = NoCall
    /\ chans = << >>
    /\ pipe_count = 0
    /\ OtherIdle

\* AsyncioParentComm(): on posix two os.pipe() calls in the process's descriptor
\* table, on nt the next value of _pipe_count in the name.
Construct ==
    /\ Len(chans) < MaxEndpoints
    /\ IF platform = "posix"
       THEN LET ch == PosixConstruct(fds) IN
            /\ chans' = Append(chans, [addr |-> PosixAddress(ch),
                                       c_rfd |-> ch.c_rfd, p_wfd |-> ch.p_wfd,
                                       p_rfd |-> ch.p_rfd, c_wfd |-> ch.c_wfd,
                                       open |-> {ch.c_rfd, ch.p_wfd, ch.p_rfd, ch.c_wfd},
                                       started |-> FALSE])
            /\ fds' = fds \cup {ch.c_rfd, ch.p_wfd, ch.p_rfd, ch.c_wfd}
            /\ UNCHANGED pipe_count
       ELSE /\ chans' = Append(chans, [addr |-> NtAddress(ParentPid, pipe_count),
                                       started |-> FALSE])
            /\ pipe_count' = pipe_count + 1
            /\ UNCHANGED fds
    /\ UNCHANGED addrFrame

\* create_subprocess of endpoint i: on posix the parent closes its copies of the
\* child's two descriptors.
StartChild(i) ==
    /\ ~chans[i].started
    /\ IF platform = "posix"
       THEN /\ chans' = [chans EXCEPT ![i].started = TRUE,
                                      ![i].open = @ \ {chans[i].c_rfd, chans[i].c_wfd}]
            /\ fds' = fds \ {chans[i].c_rfd, chans[i].c_wfd}
       ELSE /\ chans' = [chans EXCEPT ![i].started = TRUE]
            /\ UNCHANGED fds
    /\ UNCHANGED <<pipe_count, addrFrame>>

\* posix: the exit monitor of endpoint i closes the writer, whose transport
\* releases the write descriptor.
WriterReleased(i) ==
    /\ platform = "posix"
    /\ chans[i].started
    /\ chans[i].p_wfd \in chans[i].open
    /\ chans' = [chans EXCEPT ![i].open = @ \ {chans[i].p_wfd}]
    /\ fds' = fds \ {chans[i].p_wfd}
    /\ UNCHANGED <<pipe_count, addrFrame>>

\* posix: the read transport of endpoint i meets end-of-stream and releases the
\* read descriptor.
ReaderReleased(i) ==
    /\ platform = "posix"
    /\ chans[i].started
    /\ chans[i].p_rfd \in chans[i].open
    /\ chans' = [chans EXCEPT ![i].open = @ \ {chans[i].p_rfd}]
    /\ fds' = fds \ {chans[i].p_rfd}
    /\ UNCHANGED <<pipe_count, addrFrame>>

AddrNext ==
    \/ Construct
    \/ \E i \in 1..Len(chans) : StartChild(i)
    \/ \E i \in 1..Len(chans) : WriterReleased(i)
    \/ \E i \in 1..Len(chans) : ReaderReleased(i)

SpecAddr == AddrInit /\ [][AddrNext]_vars

(* ------------------------ a stream read by lines ----------------------- *)

\* The child wrote some content and exited; all of it has reached the parent's
\* reader, which has been fed end-of-stream, and the exit monitor has run.
LinesInit ==
    /\ platform \in {"posix", "nt"}
    /\ kind \in {"async", "blocking"}
    /\ address = get_address(platform)
    /\ stage = "started"
    /\ server = "None"
    /\ ready = (platform = "nt")
    /\ write_buffer = << >>
    /\ reader = "eof"
    /\ writer = "closed"
    /\ process = "exited"
    /\ monitor = "done"
    /\ conn = IF platform = "nt" THEN "made" ELSE "none"
    /\ fds = StdFds
    /\ handles = {}
    /\ p_out = << >>
    /\ p_pend = NoPend
    /\ p2c = << >>
    /\ c2p \in SeqsUpTo(Byte, MaxLineBytes)
    /\ c_fds = {}
    /\ c_handles = {}
    /\ c_reader = "undef"
    /\ c_writer = "undef"
    /\ c_out = << >>
    /\ c_pend = NoPend
    /\ sent = << >>
    /\ handed = << >>
    /\ rcvd = << >>
    /\ c_sent = c2p
    /\ p_rcvd = << >>
    /\ last = NoCall
    /\ AddrIdle

\* One more readline() on the parent's reader, its result recorded; the calls
\* stop with the first end marker.
NextLine ==
    /\ IF lines = << >> THEN TRUE ELSE lines[Len(lines)] # << >>
    /\ p_pend = NoPend
    /\ ParentReadCall("readline", 0)
    /\ lines' = Append(lines, Drop(p_rcvd', Len(p_rcvd)))
    /\ UNCHANGED <<cfgVars, lifeVars, ntVars, reader, writer, p_out, resVars, p2c,
                   cResVars, cStreamVars, sent, handed, rcvd, c_sent, chans, pipe_count, rate, cic>>

LinesNext == NextLine

SpecLines == LinesInit /\ [][LinesNext]_vars

(* --------------------------- Fastino.stage_cic -------------------------- *)

\* "order=3", the default of Fastino.__init__.
order == 3

\* a << n on integers that stay within 32 bits.
Shl(a, n) == a * 2^n

\* a | b on non-negative integers, bit by bit.
RECURSIVE BitOr(_, _)
BitOr(a, b) ==
    IF a = 0 THEN b
    ELSE IF b = 0 THEN a
    ELSE (IF a % 2 = 1 \/ b % 2 = 1 THEN 1 ELSE 0) + 2 * BitOr(a \div 2, b \div 2)

\* A range check that would let every positive rate through.
RateOutOfBoundsLow(r) == r <= 0

\* "if rate <= 0 or rate > 1 << 16".
RateOutOfBounds(r) == r <= 0 \/ r > Shl(1, 16)

\* "while rate_mantissa > 1 << 6: rate_exponent += 1; rate_mantissa >>= 1".
RECURSIVE RateLoop(_, _)
RateLoop(rate_mantissa, rate_exponent) ==
    IF rate_mantissa > Shl(1, 6)
    THEN RateLoop(rate_mantissa \div 2, rate_exponent + 1)
    ELSE <<rate_mantissa, rate_exponent>>

\* "gain = 1; for i in range(self.order): gain *= rate_mantissa".
RECURSIVE GainLoop(_, _)
GainLoop(rate_mantissa, i) ==
    IF i = 0 THEN 1 ELSE GainLoop(rate_mantissa, i - 1) * rate_mantissa

\* "while gain > 1 << gain_exponent: gain_exponent += 1".
RECURSIVE GainExponentLoop(_, _)
GainExponentLoop(gain, gain_exponent) ==
    IF gain > Shl(1, gain_exponent)
    THEN GainExponentLoop(gain, gain_exponent + 1)
    ELSE gain_exponent

\* A call that ended with an exception: nothing is returned or written.
Raised(exc) == [status |-> exc, written |-> << >>]

\* Fastino.stage_cic_mu: the three range checks, then the configuration word is
\* written to register 0x26.
stage_cic_mu(rate_mantissa, rate_exponent, gain_exponent) ==
    IF rate_mantissa < 0 \/ rate_mantissa >= Shl(1, 6) THEN Raised("ValueError")
    ELSE IF rate_exponent < 0 \/ rate_exponent >= Shl(1, 4) THEN Raised("ValueError")
    ELSE IF gain_exponent < 0 \/ gain_exponent >= Shl(1, 6) THEN Raised("ValueError")
    ELSE [status |-> "ok",
          written |-> <<[addr |-> 38,
                         data |-> BitOr(BitOr(rate_mantissa, Shl(rate_exponent, 6)),
                                        Shl(gain_exponent, 10))]>>]

\* Fastino.stage_cic: the outcome of the call, with the values it computed, what
\* it wrote and what it returned.
stage_cic(r) ==
    IF RateOutOfBounds(r) THEN Raised("ValueError")
    ELSE LET me == RateLoop(r, 0)
             rate_mantissa == me[1]
             rate_exponent == me[2]
             gain == GainLoop(rate_mantissa, order)
             gain_exponent == GainExponentLoop(gain, 0) + order * rate_exponent
             mu == stage_cic_mu(rate_mantissa - 1, rate_exponent, gain_exponent)
         IN  IF ~(gain_exponent <= order * 16) THEN Raised("AssertionError")
             ELSE IF mu.status # "ok" THEN mu
             ELSE [status |-> "ok",
                   rate_mantissa |-> rate_mantissa,
                   rate_exponent |-> rate_exponent,
                   gain |-> gain,
                   gain_exponent |-> gain_exponent,
                   written |-> mu.written,
                   ret |-> Shl(rate_mantissa, rate_exponent)]

\* A Fastino about to be given a rate: every rate the range check lets through
\* and RateSlack rates on either side of it. No channel is in use.
CicInit ==
    /\ rate \in (0 - RateSlack)..(Shl(1, 16) + RateSlack)
    /\ cic = NoCic
    /\ lines = << >>
    /\ platform = "posix"
    /\ kind = "async"
    /\ address = << >>
    /\ stage = "constructed"
    /\ server = "None"
    /\ ready = FALSE
    /\ write_buffer = << >>
    /\ reader = "undef"
    /\ writer = "undef"
    /\ process = "none"
    /\ monitor = "none"
    /\ conn = "none"
    /\ fds = StdFds
    /\ handles = {}
    /\ p_out = << >>
    /\ p_pend = NoPend
    /\ p2c = << >>
    /\ c2p = << >>
    /\ c_fds = {}
    /\ c_handles = {}
    /\ c_reader = "undef"
    /\ c_writer = "undef"
    /\ c_out = << >>
    /\ c_pend = NoPend
    /\ sent = << >>
    /\ handed = << >>
    /\ rcvd = << >>
    /\ c_sent = << >>
    /\ p_rcvd = << >>
    /\ last = NoCall
    /\ chans = << >>
    /\ pipe_count = 0

\* stage_cic(rate) is called.
StageCic ==
    /\ cic = NoCic
    /\ cic' = stage_cic(rate)
    /\ UNCHANGED <<cfgVars, lifeVars, ntVars, pStreamVars, resVars, wireVars, cResVars,
                   cStreamVars, histVars, last, chans, pipe_count, lines, rate>>

CicNext == StageCic

SpecCic == CicInit /\ [][CicNext]_vars

\* The event loop runs every callback and task that is ready, and the transports
\* keep moving buffered bytes: the exit monitor resumes once the child has
\* exited, a connection the listener accepted is handed to _child_connected, and
\* the write transports flush.
FairSpec ==
    /\ Spec
    /\ WF_vars(Autoclose)
    /\ WF_vars(ChildConnected)
    /\ WF_vars(ParentFlush)

\* FairSpec with both peers reading on: each keeps calling read or readline, and a
\* suspended read resumes once it can return.
ReadingSpec ==
    /\ FairSpec
    /\ WF_vars(ChildFlush)
    /\ WF_vars(ChildRead)
    /\ WF_vars(ChildWake)
    /\ WF_vars(ParentRead)
    /\ WF_vars(ParentWake)

(* ------------------------------ properties ------------------------------ *)

\* The address does not parse: for a descriptor pair, not two parts or a part
\* that is no number; for a pipe name, the empty name.
Malformed(pf, addr) ==
    IF pf = "posix"
    THEN \/ ~Unpacks(addr)
         \/ ~IsInt(Split1(addr)[1])
         \/ ~IsInt(Split1(addr)[2])
    ELSE addr = << >>

\* The parent-to-child direction is whole: the child has not exited, the parent's
\* writer has not been closed and the child has not closed or lost its read side.
P2CIntact ==
    /\ process # "exited"
    /\ writer # "closed"
    /\ c_reader \notin {"eof", "closed"}

\* The child-to-parent direction is whole: the child runs and has not closed its writer.
C2PIntact ==
    /\ process = "running"
    /\ c_writer # "closed"

\* C1: on nt, a write() made before the child has connected never raises and is
\* kept, in call order, in write_buffer; the connection callback hands the whole
\* buffer to the writer in that order; and from then on, while the channel is
\* whole, what the child has read followed by what is still on its way is exactly
\* what was written, the buffered bytes ahead of the later ones.
C1_BufferedWritesDelivered ==
    platform = "nt" =>
        /\ ~(last.who = "parent" /\ last.op = "write")
        /\ ~ready => /\ write_buffer = sent
                     /\ p_out = << >> /\ p2c = << >> /\ rcvd = << >>
        /\ last.out = "flushed" => p_out = sent /\ write_buffer = << >>
        /\ ready /\ P2CIntact => /\ write_buffer = << >>
                                 /\ rcvd \o p2c \o p_out = sent

\* C1, its case: the connection has just completed and handed over two or more
\* bytes written before it.
C1_Witness ==
    /\ platform = "nt"
    /\ last.out = "flushed"
    /\ Len(p_out) >= 2

\* C2 as stated: on nt, once the exit monitor has handled the exit of a child that
\* never connected, a write() fails with the broken-pipe condition.
C2_WriteFailsAfterUnconnectedExit ==
    [][(platform = "nt" /\ monitor = "done" /\ conn = "none" /\ ParentWrite)
         => last'.out = "BrokenPipeError"]_vars

\* The parent's write-side resource is closed: the writer where there is one,
\* with its descriptor or handle released, and on nt the listener, which is all
\* there is when the child never connected.
WriteSideClosed ==
    IF platform = "posix"
    THEN writer = "closed" /\ p_wfd \notin fds
    ELSE /\ server = "None"
         /\ "listener" \notin handles
         /\ ready => writer = "closed" /\ "pipe" \notin handles
         /\ ~ready => handles = {}

ChildReading ==
    /\ P2CIntact
    /\ c_reader = "open"
    /\ c_pend.op # "readline"

\* The parent has its reader and reads with read(n), the direction towards it whole.
ParentReading ==
    /\ C2PIntact
    /\ reader = "open"
    /\ p_pend.op # "readline"

\* C4: in both directions the bytes the peer has read are always a prefix of the
\* bytes written, and while the direction is whole the bytes read followed by the
\* bytes still on their way are exactly the bytes written: none lost, repeated or
\* out of order, whatever the read sizes and the delivery chunks. When the
\* direction stays whole and the peer keeps reading with read(n), what it has
\* read equals what was written again and again.
C4_StreamOrder ==
    /\ [](IsPrefix(rcvd, sent) /\ IsPrefix(p_rcvd, c_sent))
    /\ [](P2CIntact => rcvd \o p2c \o p_out \o write_buffer = sent)
    /\ [](C2PIntact => p_rcvd \o c2p \o c_out = c_sent)
    /\ <>[]ChildReading => []<>(rcvd = sent)
    /\ <>[]ParentReading => []<>(p_rcvd = c_sent)

\* C4, its case: the parent has written all the bytes of the run in separate
\* writes or one, and the child has read every one of them.
C4_Witness ==
    /\ Len(sent) = MaxBytes
    /\ rcvd = sent
    /\ p2c = << >>
    /\ process = "running"

\* C6: a close that finds the stream closed already changes nothing and raises
\* nothing: the child's close() called again, and the exit monitor's close of a
\* writer that is closed already.
C6_CloseIdempotent ==
    [][/\ (ChildClose /\ c_writer = "closed")
            => /\ UNCHANGED <<c_reader, c_writer, c_out, c_pend, c_fds, c_handles, p2c, c2p>>
               /\ last'.out = "noop"
       /\ (Autoclose /\ writer = "closed")
            => /\ UNCHANGED <<reader, writer, p_out, p_pend, fds, handles, p2c, c2p>>
               /\ last' = NoCall]_vars

\* C6, its case: close() has just been called on a child endpoint that was closed.
C6_Witness ==
    /\ last = Call("child", "close", "noop")
    /\ c_writer = "closed"

\* C7 as stated: once close() has been called on the child endpoint, each later
\* read, readline, write or drain on it fails with a closed-channel condition.
C7_CallsFailAfterClose ==
    [][(c_writer = "closed" /\ (ChildWrite \/ ChildDrain \/ ChildRead \/ ChildReadline))
         => last'.out \in {"ValueError", "ConnectionResetError", "BrokenPipeError"}]_vars

\* C8 as stated: a close() of the child endpoint made while one of its own reads
\* is pending ends the stream for that read, which can then complete with the
\* end-of-stream result instead of staying suspended.
C8_PendingReadEndsOnClose ==
    [][(c_pend # NoPend /\ c_writer = "open" /\ ChildClose)
         => (ChildEof' /\ CanReturn(c_pend.op, p2c', ChildEof'))]_vars

\* The child has opened or wrapped nothing: no pipe handle, and on posix no file
\* or transport around a descriptor (on nt the reader the async endpoint makes
\* before it connects is no resource).
NothingOpened ==
    /\ c_handles = {}
    /\ platform = "posix" => c_reader = "undef" /\ c_writer = "undef"

\* C9 as stated: building the child endpoint from a malformed address fails, with
\* the parse error for a descriptor pair and with the operating system's refusal
\* of the name on nt, and no descriptor or pipe has been opened or wrapped.
C9_MalformedAddressOpensNothing ==
    [][(ChildConnect /\ Malformed(platform, address))
         => /\ last'.out = IF platform = "posix" THEN "ValueError" ELSE "OSError"
            /\ NothingOpened']_vars

\* The two descriptors named in the address of a posix endpoint are still open
\* in the parent.
AddrDescriptorsOpen(ch) == {ch.c_rfd, ch.c_wfd} \subseteq ch.open

\* C10: any two endpoints constructed in one parent process report different
\* addresses: on nt always, the counter giving each name its own number; on posix
\* whenever the descriptors named in both addresses are still open.
C10_AddressesDistinct ==
    \A i, j \in 1..Len(chans) :
        i # j =>
            IF platform = "nt"
            THEN chans[i].addr # chans[j].addr
            ELSE AddrDescriptorsOpen(chans[i]) /\ AddrDescriptorsOpen(chans[j])
                     => chans[i].addr # chans[j].addr

\* C10, its case: two posix endpoints with their descriptors open, one of them
\* on a descriptor number an earlier endpoint had used and closed.
C10_Witness ==
    /\ platform = "posix"
    /\ \E i, j, k \in 1..Len(chans) :
          /\ i # j /\ k # i /\ k # j
          /\ AddrDescriptorsOpen(chans[i])
          /\ AddrDescriptorsOpen(chans[j])
          /\ chans[k].c_rfd = chans[i].c_rfd

\* posix: the parent still holds a copy of one of the child's descriptors.
HoldsChildFds == c_rfd \in fds \/ c_wfd \in fds

\* C11: on posix the parent's reader and writer come to exist only after the
\* child has been spawned and the parent's copies of the child's two
\* descriptors have been closed; a read, readline, write or drain called while
\* the parent still holds them finds no stream, raises and moves no byte.
C11_ChildFdsClosedBeforeStreams ==
    /\ [](platform = "posix" /\ (reader # "undef" \/ writer # "undef")
            => ~HoldsChildFds /\ process # "none")
    /\ [][(platform = "posix" /\ HoldsChildFds
             /\ (ParentWrite \/ ParentDrain \/ ParentRead \/ ParentReadline))
            => /\ last'.out = "AttributeError"
               /\ UNCHANGED <<pStreamVars, wireVars, histVars>>]_vars

\* C11, its case: create_subprocess has returned on posix and a write has gone
\* to the writer, the child's descriptors closed in the parent and open in the
\* child.
C11_Witness ==
    /\ platform = "posix"
    /\ stage = "started"
    /\ sent # << >>
    /\ ~HoldsChildFds
    /\ {c_rfd, c_wfd} \subseteq c_fds

\* The operating-system resources the parent endpoint created and still holds:
\* on posix those of its four descriptors still open, on nt its handles.
ParentHolds ==
    IF platform = "posix" THEN fds \cap {c_rfd, p_wfd, p_rfd, c_wfd} ELSE handles

\* C12 as stated: no resource the parent endpoint created is left open when the
\* channel's life is over, also when create_subprocess ended with the spawn
\* failing.
C12_NothingLeftOpen ==
    stage = "failed" => ParentHolds = {}

\* The concatenation of a sequence of byte strings.
RECURSIVE Concat(_)
Concat(ss) == IF ss = << >> THEN << >> ELSE Head(ss) \o Concat(Tail(ss))

\* A complete line: it ends with the terminator and holds no other.
IsLine(r) ==
    /\ r # << >>
    /\ r[Len(r)] = "\n"
    /\ \A m \in 1..(Len(r) - 1) : r[m] # "\n"

\* C13: successive readline() calls on a stream that has ended return its
\* content piece by piece, in order, nothing lost and nothing twice: each
\* result is a complete line with its terminator, except that the last piece
\* may be the unterminated tail, and the end marker comes only, and then at
\* once, when everything has been returned.
C13_ReadlineSplitsLines ==
    /\ Concat(lines) \o c2p = c_sent
    /\ \A i \in 1..Len(lines) :
          \/ IsLine(lines[i])
          \/ /\ lines[i] # << >>
             /\ \A m \in 1..Len(lines[i]) : lines[i][m] # "\n"
             /\ Concat(Take(lines, i)) = c_sent
          \/ /\ lines[i] = << >>
             /\ i = Len(lines)
             /\ Concat(Take(lines, i - 1)) = c_sent

\* C13, its case: two lines and an unterminated tail, read to the end marker.
C13_Witness ==
    /\ c_sent = <<"a", "\n", "a", "a", "\n", "a">>
    /\ lines = << <<"a", "\n">>, <<"a", "a", "\n">>, <<"a">>, << >> >>

\* C14: the exit monitor never raises. Whenever _autoclose runs (the child never
\* connected, the child connected, the writer was closed already) it completes
\* without an exception, a writer that exists is closed afterwards, a writer that
\* does not exist is left so, and the bytes the writer still holds are untouched.
C14_ExitCloseNeverRaises ==
    [][Autoclose =>
         /\ last' = NoCall
         /\ monitor' = "done"
         /\ writer' = (IF writer = "undef" THEN "undef" ELSE "closed")
         /\ p_out' = p_out]_vars

\* C14, its case: the monitor has run on a child that had connected and to which
\* the parent had written.
C14_Witness ==
    /\ platform = "nt"
    /\ monitor = "done"
    /\ conn = "made"
    /\ writer = "closed"
    /\ sent # << >>
    /\ last = NoCall

\* A power of two.
RECURSIVE IsPow2(_)
IsPow2(n) == n = 1 \/ (n > 1 /\ n % 2 = 0 /\ IsPow2(n \div 2))

\* C15: stage_cic with order 3. For 1 <= rate <= 65536 the call does not fail: the
\* assertion holds (gain_exponent <= 48), the staged fields are in range
\* (0 <= rate_mantissa - 1 < 64, 0 <= rate_exponent < 16, 0 <= gain_exponent < 64),
\* one configuration word is written, the returned rate is rate_mantissa shifted
\* left by rate_exponent, is never more than the rate asked for, and is the rate
\* asked for when that is a power of two or at most 64. For any other rate the
\* call raises ValueError and writes nothing.
C15_StageCicInRange ==
    cic # NoCic =>
        IF 1 <= rate /\ rate <= 65536
        THEN /\ cic.status = "ok"
             /\ cic.gain_exponent <= 48
             /\ 0 <= cic.rate_mantissa - 1 /\ cic.rate_mantissa - 1 < 64
             /\ 0 <= cic.rate_exponent /\ cic.rate_exponent < 16
             /\ 0 <= cic.gain_exponent /\ cic.gain_exponent < 64
             /\ 1 <= cic.gain /\ cic.gain <= 2147483647
             /\ Len(cic.written) = 1
             /\ cic.ret = cic.rate_mantissa * 2^cic.rate_exponent
             /\ cic.ret <= rate
             /\ (IsPow2(rate) \/ rate <= 64) => cic.ret = rate
        ELSE /\ cic.status = "ValueError"
             /\ cic.written = << >>

\* C15, its case: the largest rate accepted has been staged, with the largest
\* gain exponent the assertion allows.
C15_Witness ==
    /\ rate = 65536
    /\ cic # NoCic
    /\ cic.status = "ok"
    /\ cic.gain_exponent = 48
    /\ cic.ret = 65536

\* C16: on nt the readiness gate, once set, is never reset; it is set only by the
\* connection callback, which finds it unset; the callback closes the listener and
\* clears the reference; and once the callback has run no further connection
\* reaches it, whatever the child goes on to open: it runs at most once.
C16_GateSetOnce ==
    /\ [][ready => ready']_vars
    /\ [][(ready' /\ ~ready) => (ChildConnected /\ conn' = "made")]_vars
    /\ [][ChildConnected => (~ready /\ server' = "None" /\ "listener" \notin handles')]_vars
    /\ [][(conn \in {"made", "failed"}) => (conn' = conn)]_vars

\* C16, its case: with the gate set, the child has tried to connect once more and
\* has been refused.
C16_Witness ==
    /\ platform = "nt"
    /\ ready
    /\ conn = "made"
    /\ process = "running"
    /\ last = Call("child", "connect", "OSError")

\* C17: the transport exists before the child does. On posix the four descriptors
\* of the two pipes are open from construction until the child is spawned; on nt
\* the listener is serving when the child is spawned; and so the child's connect
\* never fails for want of a pipe or a listener.
C17_TransportBeforeChild ==
    /\ [](platform = "posix" /\ process = "none" => {c_rfd, p_wfd, p_rfd, c_wfd} \subseteq fds)
    /\ [](platform = "nt" /\ process # "none" => stage # "constructed")
    /\ [][Spawn => (platform = "nt" => server = "listening" /\ "listener" \in handles)]_vars
    /\ [][ChildConnect => (last' = NoCall /\ c_reader' = "open" /\ c_writer' = "open")]_vars

\* C17, its case: on nt the child has connected while create_subprocess had not
\* yet resumed from spawning it.
C17_Witness ==
    /\ platform = "nt"
    /\ stage = "spawning"
    /\ conn = "pending"
    /\ c_handles = {"pipe"}
    /\ last = NoCall

\* C18: on nt, in every reachable state, a set readiness gate means that the
\* write buffer is empty and that reader and writer exist; and the bytes passed
\* to write() so far are exactly the bytes handed to the writer followed by the
\* bytes still in the write buffer: each is in one of the two, once, in call order.
C18_GateAndBuffer ==
    platform = "nt" =>
        /\ ready => (write_buffer = << >> /\ reader # "undef" /\ writer # "undef")
        /\ ~ready => handed = << >>
        /\ handed \o write_buffer = sent

\* C18, its case: the gate is set and the writer has been handed bytes written
\* before the connection and after it, some of which it has passed on.
C18_Witness ==
    /\ platform = "nt"
    /\ ready
    /\ process = "running"
    /\ writer = "open"
    /\ Len(handed) = MaxBytes
    /\ Len(p_out) < Len(handed)

\* C19 as stated: on nt, in every interleaving of the connection callback and the
\* exit monitor, the callback runs only while the listener reference is still
\* there, and so does not fail on it.
C19_CallbackFindsListener ==
    [][ChildConnected => (server = "listening" /\ last'.out # "TypeError")]_vars

\* C20: on nt the listener is open exactly while server refers to it; once the
\* connection callback or the exit monitor has run it is closed and server is
\* None; a step closes it only when it finds the reference, and clears the
\* reference, which is never set again, so that it is closed at most once by
\* the two paths together; and after the child's exit the monitor always brings
\* about that no listener is open.
C20_ListenerClosedOnce ==
    /\ [](platform = "nt" => (server = "listening" <=> "listener" \in handles))
    /\ [](platform = "nt" /\ (conn \in {"made", "failed"} \/ monitor = "done")
            => (server = "None" /\ "listener" \notin handles))
    /\ [][(server' = "listening") => (server = "listening" \/ stage = "constructed")]_vars
    /\ [][("listener" \in handles /\ "listener" \notin handles')
            => (server = "listening" /\ server' = "None" /\ (ChildConnected \/ Autoclose))]_vars
    /\ (platform = "nt" /\ process = "exited" /\ monitor \in {"waiting", "resumed"})
            ~> ("listener" \notin handles)

\* C20, its case: the monitor has closed the listener of a child that had opened
\* the pipe, and the connection callback has run after it.
C20_Witness ==
    /\ platform = "nt"
    /\ monitor = "done"
    /\ conn = "failed"
    /\ server = "None"
    /\ handles = {}

====
